---- MODULE Spec2Model ----
(***************************************************************************)
(* Model of the research-assistant core of the dashboard: the App          *)
(* component's activity-timeline reducer (onUpdateEvent), the archive      *)
(* effect (useEffect on thread.messages / thread.isLoading / the live      *)
(* timeline), handleSubmit, handleCancel and the background context.       *)
(* The agent stream (useStream) is an external collaborator: its message   *)
(* list, its loading flag and its callbacks are driven by the environment  *)
(* actions StreamValues, StreamEnd, OnUpdateEvent and OnError.             *)
(***************************************************************************)
EXTENDS Integers, Sequences, FiniteSets, TLC

(* ------------------------------ bounds --------------------------------- *)

\* submissions per page session
MaxSubmits == 2

\* update notifications classified per exchange
MaxEvents == 2

(* --------------------------- JavaScript values ------------------------- *)

Undefined == [kind |-> "undefined"]

JsNull == [kind |-> "null"]

JsArray(items) == [kind |-> "array", items |-> items]

JsObject(fields) == [kind |-> "object", fields |-> fields]

JsString(s) == [kind |-> "string", value |-> s]

\* ToBoolean for the value shapes used here: undefined, null and the empty
\* string are falsy, arrays, objects and other strings are truthy.
Truthy(v) ==
  IF v.kind = "string" THEN v.value # "" ELSE v.kind \notin {"undefined", "null"}

\* value == null || value === undefined
Nullish(v) == v.kind \in {"undefined", "null"}

\* property read value.name on a non-nullish value: the field of an object,
\* undefined when the object has no such field or the value is a primitive
Prop(v, name) ==
  IF v.kind = "object" /\ name \in DOMAIN v.fields THEN v.fields[name]
  ELSE Undefined

\* a string is truthy iff it is not empty
TruthyStr(s) == s # ""

\* message.id of a message that carries no identity
NoId == ""

(* ------------------------------ text helpers --------------------------- *)

\* variant: the strings are joined last to first
RECURSIVE JoinComma_Reversed(_)
JoinComma_Reversed(xs) ==
  IF Len(xs) = 0 THEN ""
  ELSE IF Len(xs) = 1 THEN xs[1]
  ELSE JoinComma_Reversed(Tail(xs)) \o ", " \o xs[1]

\* Array.prototype.join(", ") over a sequence of strings
RECURSIVE JoinComma(_)
JoinComma(xs) ==
  IF Len(xs) = 0 THEN ""
  ELSE IF Len(xs) = 1 THEN xs[1]
  ELSE xs[1] \o ", " \o JoinComma(Tail(xs))

\* the characters String.prototype.trim() strips
Whitespace == {" ", "\n", "\t"}

\* user input is a sequence of one-character strings
RECURSIVE TrimStart(_)
TrimStart(cs) ==
  IF Len(cs) > 0 /\ Head(cs) \in Whitespace THEN TrimStart(Tail(cs)) ELSE cs

RECURSIVE TrimEnd(_)
TrimEnd(cs) ==
  IF Len(cs) > 0 /\ cs[Len(cs)] \in Whitespace
  THEN TrimEnd(SubSeq(cs, 1, Len(cs) - 1))
  ELSE cs

Trim(cs) == TrimEnd(TrimStart(cs))

\* the string made of the characters of cs
RECURSIVE Str(_)
Str(cs) == IF Len(cs) = 0 THEN "" ELSE Head(cs) \o Str(Tail(cs))

(* --------------------------- event classifier -------------------------- *)

\* new Set(labels) spread back into an array: first occurrences, in order
RECURSIVE Distinct(_)
Distinct(xs) ==
  IF Len(xs) = 0 THEN <<>>
  ELSE LET init == Distinct(SubSeq(xs, 1, Len(xs) - 1))
           last == xs[Len(xs)]
       IN  IF \E i \in 1..Len(init) : init[i] = last THEN init
           ELSE Append(init, last)

\* .filter(Boolean) over labels
RECURSIVE FilterTruthyStr(_)
FilterTruthyStr(xs) ==
  IF Len(xs) = 0 THEN <<>>
  ELSE IF TruthyStr(Head(xs)) THEN <<Head(xs)>> \o FilterTruthyStr(Tail(xs))
  ELSE FilterTruthyStr(Tail(xs))

\* variant: the label list is not cut to three
Slice3_TakesAll(xs) == xs

\* uniqueLabels.slice(0, 3)
Slice3(xs) == SubSeq(xs, 1, IF Len(xs) < 3 THEN Len(xs) ELSE 3)

\* s.label of a source object; a source without a label gives undefined,
\* which filter(Boolean) drops like the empty string
LabelOf(s) == IF "label" \in DOMAIN s THEN s.label ELSE ""

Labels(sources) == [i \in 1..Len(sources) |-> LabelOf(sources[i])]

\* a source entry that is null or undefined
NullishEntry(s) == "kind" \in DOMAIN s /\ Nullish(s)

\* event.generate_query?.search_query?.join(", ") raises a TypeError when
\* search_query is neither nullish nor an array (it has no join method)
QueryThrows(payload) ==
  LET sq == Prop(payload, "search_query")
  IN  ~Nullish(sq) /\ sq.kind # "array"

\* sources.map(s => s.label) raises a TypeError when the truthy
\* sources_gathered is not an array, or when an entry is null or undefined
ResearchThrows(payload) ==
  LET sg == Prop(payload, "sources_gathered")
  IN  /\ Truthy(sg)
      /\ \/ sg.kind # "array"
         \/ \E i \in 1..Len(sg.items) : NullishEntry(sg.items[i])

\* data of the generate_query record
QueryData(payload) ==
  LET sq == Prop(payload, "search_query")
      joined == IF sq.kind = "array" THEN JoinComma(sq.items) ELSE ""
  IN  IF TruthyStr(joined) THEN joined ELSE ""

\* data of the web_research record
ResearchData(payload) ==
  LET sg == Prop(payload, "sources_gathered")
      sources == IF Truthy(sg) THEN sg.items ELSE <<>>
      numSources == Len(sources)
      uniqueLabels == Distinct(FilterTruthyStr(Labels(sources)))
      exampleLabels == JoinComma(Slice3(uniqueLabels))
  IN  "Gathered " \o ToString(numSources) \o " sources. Related to: "
        \o (IF TruthyStr(exampleLabels) THEN exampleLabels ELSE "N/A") \o "."

NoRecord == [title |-> "", data |-> ""]

\* the chain raises a TypeError before any state is touched
ClassifierThrows(event) ==
  IF Truthy(event.generate_query) THEN QueryThrows(event.generate_query)
  ELSE IF Truthy(event.web_research) THEN ResearchThrows(event.web_research)
  ELSE FALSE

\* variant: four independent tests, the last one that matches wins
ProcessedEvent_LastMatch(event) ==
  IF Truthy(event.finalize_answer)
    THEN [title |-> "Finalizing Answer",
          data |-> "Composing and presenting the final answer."]
  ELSE IF Truthy(event.reflection)
    THEN [title |-> "Reflection", data |-> "Analysing Web Research Results"]
  ELSE IF Truthy(event.web_research)
    THEN [title |-> "Web Research", data |-> ResearchData(event.web_research)]
  ELSE IF Truthy(event.generate_query)
    THEN [title |-> "Generating Search Queries",
          data |-> QueryData(event.generate_query)]
  ELSE NoRecord

\* the if / else-if chain of onUpdateEvent: the record produced, or NoRecord
ProcessedEvent(event) ==
  IF Truthy(event.generate_query)
    THEN [title |-> "Generating Search Queries",
          data |-> QueryData(event.generate_query)]
  ELSE IF Truthy(event.web_research)
    THEN [title |-> "Web Research", data |-> ResearchData(event.web_research)]
  ELSE IF Truthy(event.reflection)
    THEN [title |-> "Reflection", data |-> "Analysing Web Research Results"]
  ELSE IF Truthy(event.finalize_answer)
    THEN [title |-> "Finalizing Answer",
          data |-> "Composing and presenting the final answer."]
  ELSE NoRecord

\* variant: every recognized branch raises the latch
TakesFinalizeBranch_AnyBranch(event) ==
  \/ Truthy(event.generate_query)
  \/ Truthy(event.web_research)
  \/ Truthy(event.reflection)
  \/ Truthy(event.finalize_answer)

\* the branch of the chain that raises the latch
TakesFinalizeBranch(event) ==
  /\ ~Truthy(event.generate_query)
  /\ ~Truthy(event.web_research)
  /\ ~Truthy(event.reflection)
  /\ Truthy(event.finalize_answer)

(* ------------------------- inputs of the model ------------------------- *)

NoKeys ==
  [generate_query |-> Undefined, web_research |-> Undefined,
   reflection |-> Undefined, finalize_answer |-> Undefined]

EvQuery ==
  [NoKeys EXCEPT !.generate_query =
     JsObject([search_query |-> JsArray(<<"q1", "q2">>)])]

EvResearch ==
  [NoKeys EXCEPT !.web_research =
     JsObject([sources_gathered |->
       JsArray(<<[label |-> "A"], [label |-> "A"], [label |-> "B"]>>)])]

EvReflection == [NoKeys EXCEPT !.reflection = JsObject(<<>>)]

EvFinalize == [NoKeys EXCEPT !.finalize_answer = JsObject(<<>>)]

\* update notifications of the four phases
PhaseEvents == {EvQuery, EvResearch, EvReflection, EvFinalize}

\* update notifications the stream delivers during an exchange: a research
\* phase, the finalize phase and a notification without a recognized key
Events == {EvResearch, EvFinalize, NoKeys}

\* texts typed into the input form
Inputs == {<<>>, <<" ">>, <<"Q">>}

\* the options of the effort selector
Efforts == {"low", "medium", "high"}

Models == {"gemini-2.0-flash"}

\* texts a widget forwards through onSendToCopilot
Contexts == {"C"}

ErrorMessages == {"stream failed"}

(* --------------- notifications given to the classifier ----------------- *)

PhaseKeys == {"generate_query", "web_research", "reflection", "finalize_answer"}

WithQuery(sq) ==
  [NoKeys EXCEPT !.generate_query = JsObject([search_query |-> sq])]

WithSources(sg) ==
  [NoKeys EXCEPT !.web_research = JsObject([sources_gathered |-> sg])]

\* query lists of a generate_query payload: given, empty, absent
QueryLists ==
  {JsArray(<<"q1", "q2">>), JsArray(<<"q2", "q1">>), JsArray(<<"q1">>),
   JsArray(<<>>), Undefined, JsNull}

QueryEvents == {WithQuery(sq) : sq \in QueryLists}

\* source lists of a web_research payload; a source with no label field
\* is a source without a label
SourceLists ==
  {<<>>,
   <<[label |-> "A"], [label |-> "A"], [label |-> "B"], [label |-> "C"],
     [label |-> "D"]>>,
   <<[url |-> "u"], [label |-> "B"], [label |-> "A"], [label |-> "B"]>>,
   <<[label |-> ""], [url |-> "u"]>>}

ResearchEvents == {WithSources(JsArray(S)) : S \in SourceLists}

\* a recognized key whose payload fields are missing
MissingFieldEvents ==
  {WithQuery(Undefined), WithSources(Undefined),
   [NoKeys EXCEPT !.generate_query = JsObject(<<>>)],
   [NoKeys EXCEPT !.web_research = JsObject(<<>>)]}

\* a recognized key whose payload fields have an unexpected shape: a query
\* list or source list that is not a list, a source entry that is null
WrongShapeEvents ==
  {WithQuery(JsString("q1")),
   WithSources(JsString("abc")),
   WithSources(JsObject(<<>>)),
   WithSources(JsArray(<<[label |-> "A"], JsNull>>))}

\* exactly one recognized key, with a falsy payload value
FalsyPayloadEvents ==
  {[NoKeys EXCEPT ![k] = v] : k \in PhaseKeys, v \in {JsNull, JsString("")}}

\* the finalize key together with one other recognized key
TwoKeyEvents ==
  {[ev EXCEPT !.finalize_answer = JsObject(<<>>)] :
     ev \in {EvQuery, EvResearch, EvReflection}}

\* several recognized keys in one notification: two that are not the
\* finalize key, all four, and a null first key before two others
SeveralKeyEvents ==
  {[EvResearch EXCEPT !.reflection = JsObject(<<>>)],
   [EvQuery EXCEPT !.web_research = EvResearch.web_research,
                   !.reflection = JsObject(<<>>),
                   !.finalize_answer = JsObject(<<>>)],
   [EvFinalize EXCEPT !.generate_query = JsNull,
                      !.reflection = JsObject(<<>>)]}

ClassifierEvents ==
  PhaseEvents \cup QueryEvents \cup ResearchEvents \cup MissingFieldEvents
    \cup WrongShapeEvents \cup FalsyPayloadEvents \cup TwoKeyEvents
    \cup SeveralKeyEvents \cup {NoKeys}

(* ------------------ arguments given to the handlers -------------------- *)

\* handleSubmit(submittedInputValue: string, effort: string, model: string)
\* takes any strings: the selector's options and two other strings
AllEfforts == Efforts \cup {"max", ""}

AllInputs == {<<>>, <<" ">>, <<"Q">>, <<" ", "Q", " ">>}

\* the options of the model selector
AllModels ==
  {"gemini-2.0-flash", "gemini-2.5-flash-preview-04-17",
   "gemini-2.5-pro-preview-05-06"}

\* setBackgroundContext(context: string): a text, or the empty string
AllContexts == Contexts \cup {""}

\* error.message of the error handed to onError; an Error constructed
\* without a message has the empty string
AllErrorMessages == ErrorMessages \cup {""}

(* ---------------------- NewsWidget and NewsHeatmap --------------------- *)

Widgets == {"news", "heatmap"}

\* PageType
Pages == {"news", "market", "charting", "settings"}

\* useState<NewsArticle[]>([]) / useState<HeatmapResponse | null>(null)
InitialData(w) == IF w = "news" THEN JsArray(<<>>) ELSE JsNull

\* the useState values of a widget at mount; its mount effect has not run
WidgetInit(w) ==
  [data |-> InitialData(w), loading |-> TRUE, error |-> JsNull,
   lastUpdated |-> JsNull, phase |-> "mounted"]

MountedWidgets == [w \in Widgets |-> WidgetInit(w)]

\* the news page is not shown: neither widget exists
UnmountedWidgets ==
  [w \in Widgets |-> [WidgetInit(w) EXCEPT !.phase = "unmounted"]]

\* data.data of a news response (article titles) / a successful heatmap
\* response (sector names)
Payloads(w) ==
  IF w = "news" THEN {JsArray(<<"a1">>), JsArray(<<"a1", "a2">>)}
  ELSE {JsObject([success |-> TRUE, sectors |-> <<"s1">>]),
        JsObject([success |-> TRUE, sectors |-> <<"s1", "s2">>])}

\* values of new Date()
Dates == {"t1", "t2"}

\* what makes a started request fail: a non-OK status, a body that is not
\* the expected one, a network error, a thrown value that is not an Error,
\* and for the heatmap a body with success false (with or without
\* error_message) and the abort of the 30 second timer
FailureCauses(w) ==
  IF w = "news" THEN {"http", "format", "network", "thrown"}
  ELSE {"http", "unsuccessful", "unsuccessful_message", "json", "network",
        "thrown", "abort"}

MissingKeyMessage ==
  "MarketAux API key not found. Please add VITE_MARKETAUX_API_KEY to your environment variables."

\* the text the catch block stores for a failure
FetchErrorMessage(w, cause) ==
  IF w = "news"
  THEN CASE cause = "http" -> "API request failed: 500 Internal Server Error"
         [] cause = "format" -> "Invalid response format from API"
         [] cause = "network" -> "Failed to fetch"
         [] OTHER -> "Failed to fetch news"
  ELSE CASE cause = "abort" -> "Request timed out. Please try again."
         [] cause = "http" ->
              "API request failed: 500 Internal Server Error - down"
         [] cause = "unsuccessful" -> "Failed to fetch heatmap data"
         [] cause = "unsuccessful_message" -> "no articles"
         [] cause = "json" -> "Unexpected end of JSON input"
         [] cause = "network" -> "Failed to fetch"
         [] OTHER -> "Failed to fetch heatmap data"

\* news.length === 0 / !heatmapData
HasData(w, data) ==
  IF w = "news" THEN Len(data.items) > 0 ELSE data # JsNull

\* the context text handleSendToCopilot builds from the widget's data
WidgetContext(w, data) ==
  IF w = "news"
  THEN "I'm currently viewing the following financial news articles: "
         \o JoinComma(data.items)
  ELSE "I'm analyzing a news heatmap with the following sector insights: "
         \o JoinComma(data.fields.sectors)

(* ------------------------------- state --------------------------------- *)

VARIABLES
  processedEventsTimeline,      \* LiveTimeline
  historicalActivities,         \* HistoricalTimelines: message id -> trace
  backgroundContext,            \* string, or JsNull
  hasFinalizeEventOccurredRef,  \* the latch (.current)
  error,                        \* string, or JsNull
  messages,                     \* thread.messages
  isLoading,                    \* thread.isLoading
  effectPending,                \* a dependency of the archive effect changed
  submitted,                    \* payload handed to thread.submit and not
                                \* yet taken up by the run, or JsNull
  exchange,                     \* number of submissions of this session
  delivered,                    \* messages of the current exchange reflected
                                \* in thread.messages: 0 none, 1 human, 2 reply
  finalizeSeen,                 \* finalize branch taken since last submission
  notification,                 \* the update notification last handed to
                                \* onUpdateEvent since the last submission,
                                \* or JsNull
  currentPage,                  \* page shown in the main content area
  widget,                       \* state of the mounted NewsWidget and
                                \* NewsHeatmap: widget name -> its useState
                                \* values and the progress of its fetch
  inputForm                     \* useState values of InputForm:
                                \* internalInputValue, effort, model

vars ==
  <<processedEventsTimeline, historicalActivities, backgroundContext,
    hasFinalizeEventOccurredRef, error, messages, isLoading, effectPending,
    submitted, exchange, delivered, finalizeSeen, notification,
    currentPage, widget, inputForm>>

\* the state owned by the page area and the widgets in it
pageVars == <<currentPage, widget>>

\* the state of the core (App without the page area)
coreVars ==
  <<processedEventsTimeline, historicalActivities, backgroundContext,
    hasFinalizeEventOccurredRef, error, messages, isLoading, effectPending,
    submitted, exchange, delivered, finalizeSeen, notification>>

\* InputForm as mounted: empty text, effort "medium", model "gemini-2.0-flash"
InitialForm ==
  [internalInputValue |-> <<>>, effort |-> "medium",
   model |-> "gemini-2.0-flash"]

\* the empty Record<string, ProcessedEvent[]>
EmptyMap == [k \in {} |-> <<>>]

Init ==
  /\ processedEventsTimeline = <<>>
  /\ historicalActivities = EmptyMap
  /\ backgroundContext = JsNull
  /\ hasFinalizeEventOccurredRef = FALSE
  /\ error = JsNull
  /\ messages = <<>>
  /\ isLoading = FALSE
  /\ effectPending = TRUE
  /\ submitted = JsNull
  /\ exchange = 0
  /\ delivered = 0
  /\ finalizeSeen = FALSE
  /\ notification = JsNull
  /\ currentPage = "news"
  /\ widget = MountedWidgets
  /\ inputForm = InitialForm

(* ------------------------- agent stream (useStream) -------------------- *)

HumanMessage(content, id) == [type |-> "human", content |-> content, id |-> id]

\* The core never reads the content of a message of thread.messages (it
\* reads length, type and id), so the content of the messages the server
\* lists is kept opaque.
AiMessage(id) == [type |-> "ai", content |-> "answer", id |-> id]

ListedHumanMessage(id) == HumanMessage("question", id)

\* identity the agent gives the reply of exchange n
ReplyId(n) == "m" \o ToString(n)

\* Date.now().toString() of the n-th submission
HumanId(n) == "h" \o ToString(n)

\* the run takes up the payload that thread.submit was handed
StreamStart ==
  /\ submitted # JsNull
  /\ submitted' = JsNull
  /\ UNCHANGED <<processedEventsTimeline, historicalActivities,
                 backgroundContext, hasFinalizeEventOccurredRef, error,
                 messages, isLoading, effectPending, exchange, delivered,
                 finalizeSeen>>
  /\ UNCHANGED notification
  /\ UNCHANGED <<pageVars, inputForm>>

\* the stream reflects k messages of the current exchange in thread.messages:
\* first the submitted human message, then the assistant reply (with or
\* without an identity).  The list may be updated before or after the
\* loading flag drops.
StreamValues(k, replyId) ==
  /\ exchange > 0
  /\ submitted = JsNull
  /\ delivered < k
  /\ messages' =
       messages
         \o (IF delivered = 0 THEN <<ListedHumanMessage(HumanId(exchange))>>
             ELSE <<>>)
         \o (IF k = 2 THEN <<AiMessage(replyId)>> ELSE <<>>)
  /\ delivered' = k
  /\ effectPending' = TRUE
  /\ UNCHANGED <<processedEventsTimeline, historicalActivities,
                 backgroundContext, hasFinalizeEventOccurredRef, error,
                 isLoading, submitted, exchange, finalizeSeen>>
  /\ UNCHANGED notification
  /\ UNCHANGED <<pageVars, inputForm>>

\* the run ends: thread.isLoading drops
StreamEnd ==
  /\ isLoading
  /\ submitted = JsNull
  /\ isLoading' = FALSE
  /\ effectPending' = TRUE
  /\ UNCHANGED <<processedEventsTimeline, historicalActivities,
                 backgroundContext, hasFinalizeEventOccurredRef, error,
                 messages, submitted, exchange, delivered, finalizeSeen>>
  /\ UNCHANGED notification
  /\ UNCHANGED <<pageVars, inputForm>>

(* ------------------------------ onUpdateEvent -------------------------- *)

\* variant: an equal record already on the list is not added again
AppendEvent_Dedup(prevEvents, processedEvent) ==
  IF \E i \in 1..Len(prevEvents) : prevEvents[i] = processedEvent
  THEN prevEvents
  ELSE Append(prevEvents, processedEvent)

\* setProcessedEventsTimeline((prevEvents) => [...prevEvents, processedEvent])
AppendEvent(prevEvents, processedEvent) == Append(prevEvents, processedEvent)

OnUpdateEvent(event) ==
  /\ isLoading
  /\ submitted = JsNull
  /\ Len(processedEventsTimeline) < MaxEvents
  /\ IF ClassifierThrows(event)
     THEN \* the exception leaves the callback; nothing has been set
          UNCHANGED <<processedEventsTimeline, effectPending,
                      hasFinalizeEventOccurredRef, finalizeSeen>>
     ELSE LET processedEvent == ProcessedEvent(event)
          IN  /\ hasFinalizeEventOccurredRef' =
                   IF TakesFinalizeBranch(event) THEN TRUE
                   ELSE hasFinalizeEventOccurredRef
              /\ finalizeSeen' = (finalizeSeen \/ TakesFinalizeBranch(event))
              /\ IF processedEvent # NoRecord
                 THEN /\ processedEventsTimeline' =
                           AppendEvent(processedEventsTimeline, processedEvent)
                      /\ effectPending' = TRUE
                 ELSE UNCHANGED <<processedEventsTimeline, effectPending>>
  /\ UNCHANGED <<historicalActivities, backgroundContext, error, messages,
                 isLoading, submitted, exchange, delivered>>
  /\ notification' = event
  /\ UNCHANGED <<pageVars, inputForm>>

OnError(message) ==
  /\ isLoading
  /\ submitted = JsNull
  /\ error' = JsString(message)
  /\ UNCHANGED <<processedEventsTimeline, historicalActivities,
                 backgroundContext, hasFinalizeEventOccurredRef, messages,
                 isLoading, effectPending, submitted, exchange, delivered,
                 finalizeSeen>>
  /\ UNCHANGED notification
  /\ UNCHANGED <<pageVars, inputForm>>

(* ---------------------------- archive effect --------------------------- *)

\* variant: the effect does not consult the latch
SettleGuard_NoLatch ==
  /\ ~isLoading
  /\ Len(messages) > 0

\* variant: the effect does not wait for the stream to stop loading
SettleGuard_IgnoresLoading ==
  /\ hasFinalizeEventOccurredRef
  /\ Len(messages) > 0

\* the outer condition of the effect
SettleGuard ==
  /\ hasFinalizeEventOccurredRef
  /\ ~isLoading
  /\ Len(messages) > 0

LastMessage == messages[Len(messages)]

\* lastMessage && lastMessage.type === "ai" && lastMessage.id
IsIdentifiedAi(lastMessage) ==
  lastMessage.type = "ai" /\ TruthyStr(lastMessage.id)

\* variant: the entry is created without the records of the trace
SetHistorical_DropsTrace(prev, id, timeline) ==
  [k \in DOMAIN prev \cup {id} |-> IF k = id THEN <<>> ELSE prev[k]]

\* (prev) => ({ ...prev, [lastMessage.id]: [...processedEventsTimeline] })
SetHistorical(prev, id, timeline) ==
  [k \in DOMAIN prev \cup {id} |-> IF k = id THEN timeline ELSE prev[k]]

\* variant: the effect also empties the live timeline when it archives
ArchiveEffect_ClearsLive ==
  /\ effectPending
  /\ effectPending' = FALSE
  /\ IF hasFinalizeEventOccurredRef /\ ~isLoading /\ Len(messages) > 0
     THEN /\ historicalActivities' =
               IF IsIdentifiedAi(LastMessage)
               THEN [k \in DOMAIN historicalActivities \cup {LastMessage.id} |->
                       IF k = LastMessage.id THEN processedEventsTimeline
                       ELSE historicalActivities[k]]
               ELSE historicalActivities
          /\ processedEventsTimeline' =
               IF IsIdentifiedAi(LastMessage) THEN <<>>
               ELSE processedEventsTimeline
          /\ hasFinalizeEventOccurredRef' = FALSE
     ELSE UNCHANGED <<historicalActivities, hasFinalizeEventOccurredRef,
                      processedEventsTimeline>>
  /\ UNCHANGED <<backgroundContext, error, messages, isLoading, submitted,
                 exchange, delivered, finalizeSeen>>
  /\ UNCHANGED notification
  /\ UNCHANGED <<pageVars, inputForm>>

\* the body of the useEffect, run after a render in which thread.messages,
\* thread.isLoading or processedEventsTimeline changed (and after mount).
\* State updates take effect in the handler that queues them (they are
\* constant or functional updates, applied in order); the effect runs
\* afterwards, after one update or after several batched into one render.
ArchiveEffect ==
  /\ effectPending
  /\ effectPending' = FALSE
  /\ IF SettleGuard
     THEN /\ historicalActivities' =
               IF IsIdentifiedAi(LastMessage)
               THEN SetHistorical(historicalActivities, LastMessage.id,
                                  processedEventsTimeline)
               ELSE historicalActivities
          /\ hasFinalizeEventOccurredRef' = FALSE
     ELSE UNCHANGED <<historicalActivities, hasFinalizeEventOccurredRef>>
  /\ UNCHANGED <<processedEventsTimeline, backgroundContext, error, messages,
                 isLoading, submitted, exchange, delivered, finalizeSeen>>
  /\ UNCHANGED notification
  /\ UNCHANGED <<pageVars, inputForm>>

(* ------------------------------ handleSubmit --------------------------- *)

\* variant: the input is trimmed before it is composed
CombinedInput_Trimmed(context, submittedInputValue) ==
  IF Truthy(context)
  THEN "Background Context:\n" \o context.value \o "\n\nUser Query:\n"
         \o Str(Trim(submittedInputValue))
  ELSE Str(Trim(submittedInputValue))

CombinedInput(context, submittedInputValue) ==
  IF Truthy(context)
  THEN "Background Context:\n" \o context.value \o "\n\nUser Query:\n"
         \o Str(submittedInputValue)
  ELSE Str(submittedInputValue)

InitialSearchQueryCount(effort) ==
  CASE effort = "low" -> 1
    [] effort = "medium" -> 3
    [] effort = "high" -> 5
    [] OTHER -> 0

\* variant: the loop count repeats the query count
MaxResearchLoops_SameAsCount(effort) ==
  CASE effort = "low" -> 1
    [] effort = "medium" -> 3
    [] effort = "high" -> 5
    [] OTHER -> 0

MaxResearchLoops(effort) ==
  CASE effort = "low" -> 1
    [] effort = "medium" -> 3
    [] effort = "high" -> 10
    [] OTHER -> 0

\* variant: the payload carries the new message only
SubmitPayload_OnlyNew(submittedInputValue, effort, model) ==
  [messages |->
     <<HumanMessage(CombinedInput(backgroundContext, submittedInputValue),
                    HumanId(exchange + 1))>>,
   initial_search_query_count |-> InitialSearchQueryCount(effort),
   max_research_loops |-> MaxResearchLoops(effort),
   reasoning_model |-> model]

SubmitPayload(submittedInputValue, effort, model) ==
  [messages |->
     Append(messages,
            HumanMessage(CombinedInput(backgroundContext, submittedInputValue),
                         HumanId(exchange + 1))),
   initial_search_query_count |-> InitialSearchQueryCount(effort),
   max_research_loops |-> MaxResearchLoops(effort),
   reasoning_model |-> model]

\* variant: a submission does not reset the latch
HandleSubmit_KeepsLatch(submittedInputValue, effort, model) ==
  /\ exchange < MaxSubmits
  /\ IF Trim(submittedInputValue) = <<>>
     THEN UNCHANGED <<coreVars, pageVars>>
     ELSE /\ processedEventsTimeline' = <<>>
          /\ submitted' = SubmitPayload(submittedInputValue, effort, model)
          /\ isLoading' = TRUE
          /\ effectPending' = TRUE
          /\ exchange' = exchange + 1
          /\ delivered' = 0
          /\ finalizeSeen' = FALSE
          /\ UNCHANGED <<historicalActivities, backgroundContext, error,
                         messages, hasFinalizeEventOccurredRef>>
  /\ notification' =
       IF Trim(submittedInputValue) = <<>> THEN notification ELSE JsNull
  /\ UNCHANGED pageVars

\* variant: a submission does not empty the live timeline
HandleSubmit_KeepsTimeline(submittedInputValue, effort, model) ==
  /\ exchange < MaxSubmits
  /\ IF Trim(submittedInputValue) = <<>>
     THEN UNCHANGED <<coreVars, pageVars>>
     ELSE /\ hasFinalizeEventOccurredRef' = FALSE
          /\ submitted' = SubmitPayload(submittedInputValue, effort, model)
          /\ isLoading' = TRUE
          /\ effectPending' = TRUE
          /\ exchange' = exchange + 1
          /\ delivered' = 0
          /\ finalizeSeen' = FALSE
          /\ UNCHANGED <<historicalActivities, backgroundContext, error,
                         messages, processedEventsTimeline>>
  /\ notification' =
       IF Trim(submittedInputValue) = <<>> THEN notification ELSE JsNull
  /\ UNCHANGED pageVars

\* variant: the archive holds the live array itself, and a submission
\* empties that array in place
HandleSubmit_EmptiesArchived(submittedInputValue, effort, model) ==
  /\ exchange < MaxSubmits
  /\ IF Trim(submittedInputValue) = <<>>
     THEN UNCHANGED <<coreVars, pageVars>>
     ELSE /\ processedEventsTimeline' = <<>>
          /\ historicalActivities' =
               [id \in DOMAIN historicalActivities |->
                  IF historicalActivities[id] = processedEventsTimeline
                  THEN <<>> ELSE historicalActivities[id]]
          /\ hasFinalizeEventOccurredRef' = FALSE
          /\ submitted' = SubmitPayload(submittedInputValue, effort, model)
          /\ isLoading' = TRUE
          /\ effectPending' = TRUE
          /\ exchange' = exchange + 1
          /\ delivered' = 0
          /\ finalizeSeen' = FALSE
          /\ UNCHANGED <<backgroundContext, error, messages>>
  /\ notification' =
       IF Trim(submittedInputValue) = <<>> THEN notification ELSE JsNull
  /\ UNCHANGED pageVars

\* variant: a submission uses the background context up
HandleSubmit_ConsumesContext(submittedInputValue, effort, model) ==
  /\ exchange < MaxSubmits
  /\ IF Trim(submittedInputValue) = <<>>
     THEN UNCHANGED <<coreVars, pageVars>>
     ELSE /\ processedEventsTimeline' = <<>>
          /\ hasFinalizeEventOccurredRef' = FALSE
          /\ submitted' = SubmitPayload(submittedInputValue, effort, model)
          /\ isLoading' = TRUE
          /\ effectPending' = TRUE
          /\ exchange' = exchange + 1
          /\ delivered' = 0
          /\ finalizeSeen' = FALSE
          /\ backgroundContext' = JsNull
          /\ UNCHANGED <<historicalActivities, error, messages>>
  /\ notification' =
       IF Trim(submittedInputValue) = <<>> THEN notification ELSE JsNull
  /\ UNCHANGED pageVars

HandleSubmit(submittedInputValue, effort, model) ==
  /\ exchange < MaxSubmits
  /\ IF Trim(submittedInputValue) = <<>>
     THEN UNCHANGED <<coreVars, pageVars>>
     ELSE /\ processedEventsTimeline' = <<>>
          /\ hasFinalizeEventOccurredRef' = FALSE
          /\ submitted' = SubmitPayload(submittedInputValue, effort, model)
          /\ isLoading' = TRUE
          /\ effectPending' = TRUE
          /\ exchange' = exchange + 1
          /\ delivered' = 0
          /\ finalizeSeen' = FALSE
          /\ UNCHANGED <<historicalActivities, backgroundContext, error,
                         messages>>
  /\ notification' =
       IF Trim(submittedInputValue) = <<>> THEN notification ELSE JsNull
  /\ UNCHANGED pageVars

\* variant: the reload keeps the archived traces
HandleCancel_KeepsArchive ==
  /\ isLoading
  /\ processedEventsTimeline' = <<>>
  /\ backgroundContext' = JsNull
  /\ hasFinalizeEventOccurredRef' = FALSE
  /\ error' = JsNull
  /\ messages' = <<>>
  /\ isLoading' = FALSE
  /\ effectPending' = TRUE
  /\ submitted' = JsNull
  /\ exchange' = 0
  /\ delivered' = 0
  /\ finalizeSeen' = FALSE
  /\ notification' = JsNull
  /\ UNCHANGED historicalActivities
  /\ currentPage' = "news"
  /\ widget' = MountedWidgets
  /\ inputForm' = InitialForm

\* thread.stop() followed by window.location.reload(): the page starts over
HandleCancel ==
  /\ isLoading
  /\ processedEventsTimeline' = <<>>
  /\ historicalActivities' = EmptyMap
  /\ backgroundContext' = JsNull
  /\ hasFinalizeEventOccurredRef' = FALSE
  /\ error' = JsNull
  /\ messages' = <<>>
  /\ isLoading' = FALSE
  /\ effectPending' = TRUE
  /\ submitted' = JsNull
  /\ exchange' = 0
  /\ delivered' = 0
  /\ finalizeSeen' = FALSE
  /\ notification' = JsNull
  /\ currentPage' = "news"
  /\ widget' = MountedWidgets
  /\ inputForm' = InitialForm

(* --------------------------- background context ------------------------ *)

SetBackgroundContext(context) ==
  /\ backgroundContext' = JsString(context)
  /\ UNCHANGED <<processedEventsTimeline, historicalActivities,
                 hasFinalizeEventOccurredRef, error, messages, isLoading,
                 effectPending, submitted, exchange, delivered, finalizeSeen>>
  /\ UNCHANGED notification
  /\ UNCHANGED <<pageVars, inputForm>>

ClearBackgroundContext ==
  /\ Truthy(backgroundContext)
  /\ backgroundContext' = JsNull
  /\ UNCHANGED <<processedEventsTimeline, historicalActivities,
                 hasFinalizeEventOccurredRef, error, messages, isLoading,
                 effectPending, submitted, exchange, delivered, finalizeSeen>>
  /\ UNCHANGED notification
  /\ UNCHANGED <<pageVars, inputForm>>

(* --------------------------- widgets and pages ------------------------- *)

\* variant: a failing fetch reports to the core's error state
FetchFail_RaisesCoreError(w, cause) ==
  /\ widget[w].phase = "fetching"
  /\ widget' = [widget EXCEPT ![w] =
       [@ EXCEPT !.error = JsString(FetchErrorMessage(w, cause)),
                 !.loading = FALSE, !.phase = "settled"]]
  /\ error' = JsString(FetchErrorMessage(w, cause))
  /\ UNCHANGED <<processedEventsTimeline, historicalActivities,
                 backgroundContext, hasFinalizeEventOccurredRef, messages,
                 isLoading, effectPending, submitted, exchange, delivered,
                 finalizeSeen, notification, currentPage, inputForm>>

\* variant: a failing fetch drops the data held so far
FetchFail_DropsData(w, cause) ==
  /\ widget[w].phase = "fetching"
  /\ widget' = [widget EXCEPT ![w] =
       [@ EXCEPT !.error = JsString(FetchErrorMessage(w, cause)),
                 !.data = InitialData(w),
                 !.loading = FALSE, !.phase = "settled"]]
  /\ UNCHANGED <<coreVars, currentPage, inputForm>>

\* fetchNews / fetchHeatmapData up to the first await: setLoading(true),
\* setError(null); fetchNews without an API key throws at once, and catch
\* and finally run in the same step
FetchBegin(w, hasKey) ==
  /\ widget' = [widget EXCEPT ![w] =
       IF w = "news" /\ ~hasKey
       THEN [@ EXCEPT !.error = JsString(MissingKeyMessage),
                      !.loading = FALSE, !.phase = "settled"]
       ELSE [@ EXCEPT !.loading = TRUE, !.error = JsNull,
                      !.phase = "fetching"]]
  /\ UNCHANGED <<coreVars, currentPage, inputForm>>

\* useEffect(() => { fetch(); }, []) after the widget is mounted
MountEffect(w, hasKey) ==
  /\ widget[w].phase = "mounted"
  /\ FetchBegin(w, hasKey)

\* the refresh button of the normal view, disabled while loading
RefreshClick(w, hasKey) ==
  /\ widget[w].phase = "settled"
  /\ ~Truthy(widget[w].error)
  /\ ~widget[w].loading
  /\ FetchBegin(w, hasKey)

\* the Retry button of the widget's error view
RetryClick(w, hasKey) ==
  /\ widget[w].phase = "settled"
  /\ Truthy(widget[w].error)
  /\ FetchBegin(w, hasKey)

\* the response is accepted: setNews / setHeatmapData, setLastUpdated, and
\* setLoading(false) of the finally block
FetchSucceed(w, payload, now) ==
  /\ widget[w].phase = "fetching"
  /\ widget' = [widget EXCEPT ![w] =
       [@ EXCEPT !.data = payload, !.lastUpdated = JsString(now),
                 !.loading = FALSE, !.phase = "settled"]]
  /\ UNCHANGED <<coreVars, currentPage, inputForm>>

\* the catch block and the finally block
FetchFail(w, cause) ==
  /\ widget[w].phase = "fetching"
  /\ widget' = [widget EXCEPT ![w] =
       [@ EXCEPT !.error = JsString(FetchErrorMessage(w, cause)),
                 !.loading = FALSE, !.phase = "settled"]]
  /\ UNCHANGED <<coreVars, currentPage, inputForm>>

\* handleSendToCopilot of a widget, wired to setBackgroundContext; the
\* button is part of the normal view and needs data
HandleSendToCopilot(w) ==
  /\ widget[w].phase \in {"fetching", "settled"}
  /\ ~Truthy(widget[w].error)
  /\ HasData(w, widget[w].data)
  /\ SetBackgroundContext(WidgetContext(w, widget[w].data))

\* a navigation button: setCurrentPage(item.id); leaving the news page
\* unmounts the widgets, entering it mounts new ones
Navigate(page) ==
  /\ page # currentPage
  /\ currentPage' = page
  /\ widget' = IF page = "news" THEN MountedWidgets ELSE UnmountedWidgets
  /\ UNCHANGED <<coreVars, inputForm>>

MountStep == \E w \in Widgets, hasKey \in BOOLEAN : MountEffect(w, hasKey)

RefreshStep == \E w \in Widgets, hasKey \in BOOLEAN : RefreshClick(w, hasKey)

RetryStep == \E w \in Widgets, hasKey \in BOOLEAN : RetryClick(w, hasKey)

SucceedStep ==
  \E w \in Widgets : \E payload \in Payloads(w), now \in Dates :
    FetchSucceed(w, payload, now)

FailStep == \E w \in Widgets : \E cause \in FailureCauses(w) : FetchFail(w, cause)

SendToCopilotStep == \E w \in Widgets : HandleSendToCopilot(w)

NavigateStep == \E page \in Pages : Navigate(page)

\* the page area with its two widgets, and the background context they feed
WidgetNext ==
  \/ MountStep
  \/ RefreshStep
  \/ RetryStep
  \/ SucceedStep
  \/ FailStep
  \/ SendToCopilotStep
  \/ ClearBackgroundContext
  \/ NavigateStep

WidgetSpec == Init /\ [][WidgetNext]_vars

(* ---------------------------- specification ---------------------------- *)

SubmitStep ==
  /\ \E i \in Inputs, e \in Efforts, m \in Models : HandleSubmit(i, e, m)
  /\ UNCHANGED inputForm

EventStep == \E ev \in Events : OnUpdateEvent(ev)

ValuesStep ==
  \E k \in 1..2, id \in {ReplyId(exchange), NoId} : StreamValues(k, id)

ErrorStep == \E msg \in ErrorMessages : OnError(msg)

ContextStep == \E c \in Contexts : SetBackgroundContext(c)

Next ==
  \/ SubmitStep
  \/ StreamStart
  \/ EventStep
  \/ ValuesStep
  \/ StreamEnd
  \/ ErrorStep
  \/ ArchiveEffect
  \/ HandleCancel
  \/ ContextStep
  \/ ClearBackgroundContext

Spec == Init /\ [][Next]_vars

(* ------------------- specification of the classifier ------------------ *)

\* One exchange in which the stream hands onUpdateEvent notifications of
\* every shape in ClassifierEvents.
AskStep ==
  /\ exchange = 0
  /\ \E m \in Models : HandleSubmit(<<"Q">>, "medium", m)
  /\ UNCHANGED inputForm

ClassifyStep == \E ev \in ClassifierEvents : OnUpdateEvent(ev)

ClassifierNext ==
  \/ AskStep
  \/ StreamStart
  \/ ClassifyStep
  \/ StreamEnd

ClassifierSpec == Init /\ [][ClassifierNext]_vars

(* -------------------- specification of the handlers -------------------- *)

\* The handlers called with every argument in the sets above, over
\* exchanges whose messages the stream reflects.
SubmitAnyStep ==
  /\ \E i \in AllInputs, e \in AllEfforts, m \in AllModels :
       HandleSubmit(i, e, m)
  /\ UNCHANGED inputForm

ContextAnyStep == \E c \in AllContexts : SetBackgroundContext(c)

ErrorAnyStep == \E msg \in AllErrorMessages : OnError(msg)

HandlerNext ==
  \/ SubmitAnyStep
  \/ StreamStart
  \/ ValuesStep
  \/ StreamEnd
  \/ ErrorAnyStep
  \/ HandleCancel
  \/ ContextAnyStep
  \/ ClearBackgroundContext

HandlerSpec == Init /\ [][HandlerNext]_vars

(* ------------------------------ InputForm ------------------------------ *)

\* isSubmitDisabled: the send button is disabled on a blank text and while
\* the stream is loading
IsSubmitDisabled == Trim(inputForm.internalInputValue) = <<>> \/ isLoading

\* onChange of the text area
ChangeInput(text) ==
  /\ inputForm' = [inputForm EXCEPT !.internalInputValue = text]
  /\ UNCHANGED <<coreVars, pageVars>>

\* onValueChange of the effort selector
SetEffort(effort) ==
  /\ inputForm' = [inputForm EXCEPT !.effort = effort]
  /\ UNCHANGED <<coreVars, pageVars>>

\* onValueChange of the model selector
SetModel(model) ==
  /\ inputForm' = [inputForm EXCEPT !.model = model]
  /\ UNCHANGED <<coreVars, pageVars>>

\* variant: the form hands every text to onSubmit and clears itself
HandleInternalSubmit_NoBlankCheck ==
  /\ HandleSubmit(inputForm.internalInputValue, inputForm.effort,
                  inputForm.model)
  /\ inputForm' = [inputForm EXCEPT !.internalInputValue = <<>>]

\* handleInternalSubmit: a blank text returns at once; any other text goes
\* to onSubmit (handleSubmit of App) and the text area is emptied
HandleInternalSubmit ==
  IF Trim(inputForm.internalInputValue) = <<>>
  THEN UNCHANGED vars
  ELSE /\ HandleSubmit(inputForm.internalInputValue, inputForm.effort,
                       inputForm.model)
       /\ inputForm' = [inputForm EXCEPT !.internalInputValue = <<>>]

\* the form's submit event: it is raised by the send button, which is
\* rendered only while the stream is not loading and is disabled by
\* isSubmitDisabled
FormSubmit ==
  /\ ~isLoading
  /\ ~IsSubmitDisabled
  /\ HandleInternalSubmit

\* handleKeyDown on Ctrl+Enter or Cmd+Enter in the text area
HandleKeyDown == HandleInternalSubmit

ChangeStep == \E text \in Inputs : ChangeInput(text)

EffortStep == \E e \in Efforts : SetEffort(e)

ModelStep == \E m \in AllModels : SetModel(m)

\* the sidebar's form driving the core: every submission comes from the
\* form; the stream delivers notifications and no message values
FormNext ==
  \/ ChangeStep
  \/ EffortStep
  \/ ModelStep
  \/ FormSubmit
  \/ HandleKeyDown
  \/ StreamStart
  \/ EventStep
  \/ StreamEnd
  \/ HandleCancel

FormSpec == Init /\ [][FormNext]_vars

\* the form together with direct calls of handleSubmit with any arguments
InputNext ==
  \/ FormNext
  \/ SubmitAnyStep

InputSpec == Init /\ [][InputNext]_vars

(* -------------------- CopilotSidebar: what is rendered ------------------ *)

\* historicalActivities[message.id!]: the entry, or undefined without one
HistoricalActivityOf(message) ==
  IF message.id \in DOMAIN historicalActivities
  THEN JsArray(historicalActivities[message.id])
  ELSE Undefined

\* isLast of the message at index (counted from 1)
IsLast(index) == index = Len(messages)

\* isLiveActivityForThisBubble of CompactAiMessageBubble
IsLiveActivityForThisBubble(isLastMessage, isOverallLoading) ==
  isLastMessage /\ isOverallLoading

\* activityForThisBubble of CompactAiMessageBubble
ActivityForThisBubble(historicalActivity, liveActivity, isLastMessage, isOverallLoading) ==
  IF isLastMessage /\ isOverallLoading THEN liveActivity
  ELSE historicalActivity

\* the indexes of the messages rendered as assistant bubbles
AiBubbles == {index \in 1..Len(messages) : messages[index].type # "human"}

\* the activity bound to the assistant bubble at index
BubbleActivity(index) ==
  ActivityForThisBubble(HistoricalActivityOf(messages[index]),
                        JsArray(processedEventsTimeline),
                        IsLast(index), isLoading)

\* the records of the ActivityTimeline inside the bubble at index; none when
\* the timeline is not rendered (no activity, or an empty one)
BubbleRecords(index) ==
  IF Truthy(BubbleActivity(index)) /\ Len(BubbleActivity(index).items) > 0
  THEN BubbleActivity(index).items
  ELSE <<>>

\* the ActivityTimeline of the bubble at index is rendered as the live one
BubbleIsLive(index) == IsLiveActivityForThisBubble(IsLast(index), isLoading)

\* variant: the placeholder is rendered whenever the stream is loading
PlaceholderShown_WheneverLoading == isLoading

\* the standalone loading placeholder is rendered
PlaceholderShown ==
  isLoading
    /\ (Len(messages) = 0 \/ messages[Len(messages)].type = "human")

(* ------------------------- vocabulary of the claims -------------------- *)

\* the step is a run of the archive effect (the settle check)
SettleCheckRuns == effectPending /\ ~effectPending'

\* all four conditions of the settle check hold
ArchiveCondition == SettleGuard /\ IsIdentifiedAi(LastMessage)

\* the step is a non-blank submission
SubmissionStarts == exchange' = exchange + 1

\* the step reloads the page (a new session starts)
PageReloads == exchange # 0 /\ exchange' = 0

\* the settle check has run on a settled stream whose last message is the
\* identified reply of the current exchange
SettledOnReply ==
  /\ ~isLoading
  /\ ~effectPending
  /\ delivered = 2
  /\ IsIdentifiedAi(LastMessage)
  /\ LastMessage.id = ReplyId(exchange)

(* -------------------------------- C1 ----------------------------------- *)

\* C1: when the settle check runs with the latch true, isLoading false and
\* an identified assistant message m1 last, afterwards HistoricalTimelines
\* maps m1 to exactly the LiveTimeline of that moment and the latch is false.
C1_ArchiveOnSettle ==
  [][(SettleCheckRuns /\ ArchiveCondition) =>
       /\ LastMessage.id \in DOMAIN historicalActivities'
       /\ historicalActivities'[LastMessage.id] = processedEventsTimeline
       /\ hasFinalizeEventOccurredRef' = FALSE]_vars

C1_Witness ==
  /\ SettledOnReply
  /\ finalizeSeen
  /\ ~hasFinalizeEventOccurredRef
  /\ LastMessage.id \in DOMAIN historicalActivities
  /\ Len(historicalActivities[LastMessage.id]) = MaxEvents

(* -------------------------------- C2 ----------------------------------- *)

C3_NoOpWhenConditionFails ==
  [][(SettleCheckRuns /\ ~ArchiveCondition) =>
       UNCHANGED <<historicalActivities, processedEventsTimeline,
                   hasFinalizeEventOccurredRef>>]_vars

(* -------------------------------- C4 ----------------------------------- *)

\* C4: after a successful archive the latch is false, and while the latch is
\* false (no new finalize event) no step of the session adds a key to
\* HistoricalTimelines or changes an entry, however often the settle check
\* runs again.
C4_SettleIdempotent ==
  [][/\ (SettleCheckRuns /\ ArchiveCondition) => ~hasFinalizeEventOccurredRef'
     /\ (~hasFinalizeEventOccurredRef /\ ~PageReloads)
          => historicalActivities' = historicalActivities]_vars

\* the settle check ran again in a second exchange that saw no finalize
\* event, after the first exchange was archived
C4_Witness ==
  /\ exchange = 2
  /\ ~finalizeSeen
  /\ ~effectPending
  /\ delivered > 0
  /\ DOMAIN historicalActivities = {ReplyId(1)}
  /\ historicalActivities[ReplyId(1)] # <<>>

(* -------------------------------- C5 ----------------------------------- *)

\* C5: once an exchange that saw a finalize event has settled with its
\* identified reply last and the settle check has run, HistoricalTimelines
\* holds an entry for that reply, whatever the order of the loading drop and
\* the message-list update.
C5_ArchivedOncePerExchange ==
  (SettledOnReply /\ finalizeSeen) =>
    ReplyId(exchange) \in DOMAIN historicalActivities

(* -------------------------------- C6 ----------------------------------- *)

\* C6: HistoricalTimelines changes only when a finalize event has been
\* classified since the most recent submission.
C6_ArchiveNeedsFinalize ==
  [][(historicalActivities' # historicalActivities /\ ~PageReloads)
       => finalizeSeen]_vars

\* an exchange delivered its reply and stopped loading without a finalize
\* event, the settle check ran and nothing was archived for it
C6_Witness ==
  /\ SettledOnReply
  /\ ~finalizeSeen
  /\ processedEventsTimeline # <<>>
  /\ ReplyId(exchange) \notin DOMAIN historicalActivities

(* -------------------------------- C7 ----------------------------------- *)

\* C7: an entry of HistoricalTimelines is never replaced, changed or removed
\* during the session.
C7_WriteOnce ==
  [][~PageReloads =>
       \A k \in DOMAIN historicalActivities :
         /\ k \in DOMAIN historicalActivities'
         /\ historicalActivities'[k] = historicalActivities[k]]_vars

(* -------------------------------- C8 ----------------------------------- *)

\* C8 as stated: while isLoading is true, the last assistant message has no
\* entry in HistoricalTimelines.
C8_NoEntryForLastAiWhileLoading ==
  (isLoading /\ Len(messages) > 0 /\ IsIdentifiedAi(LastMessage))
    => LastMessage.id \notin DOMAIN historicalActivities

\* C8 amended: while isLoading is true, HistoricalTimelines has no entry for
\* the reply of the exchange in progress.
C8_NoEntryForStreamingReply ==
  isLoading => ReplyId(exchange) \notin DOMAIN historicalActivities

C8_Witness ==
  /\ isLoading
  /\ delivered = 2
  /\ IsIdentifiedAi(LastMessage)
  /\ LastMessage.id = ReplyId(exchange)
  /\ hasFinalizeEventOccurredRef
  /\ ~effectPending

(* -------------------------------- C9 ----------------------------------- *)

\* C9: every non-blank submission leaves LiveTimeline empty and the latch
\* false, with or without a background context.
C9_SubmitResets ==
  [][SubmissionStarts =>
       /\ processedEventsTimeline' = <<>>
       /\ hasFinalizeEventOccurredRef' = FALSE]_vars

\* a second submission, with a background context prepended, made after the
\* first exchange left a non-empty timeline behind
C9_Witness ==
  /\ exchange = 2
  /\ delivered = 0
  /\ submitted # JsNull
  /\ isLoading
  /\ processedEventsTimeline = <<>>
  /\ ~hasFinalizeEventOccurredRef
  /\ Truthy(backgroundContext)
  /\ submitted.messages[Len(submitted.messages)].content
       = CombinedInput(backgroundContext, <<"Q">>)
  /\ ReplyId(1) \in DOMAIN historicalActivities
  /\ historicalActivities[ReplyId(1)] # <<>>

(* -------------------------------- C10 ---------------------------------- *)

\* C10: between two submissions LiveTimeline only grows at the end: every
\* notification that classifies to a record appends exactly that record
\* after the existing ones (also when an equal record is already there),
\* and no other step of the exchange changes the list.
C10_AppendOnly ==
  [][/\ \A ev \in Events :
          (OnUpdateEvent(ev) /\ ProcessedEvent(ev) # NoRecord) =>
            processedEventsTimeline' =
              processedEventsTimeline \o <<ProcessedEvent(ev)>>
     /\ (~SubmissionStarts /\ ~PageReloads) =>
          \/ processedEventsTimeline' = processedEventsTimeline
          \/ /\ Len(processedEventsTimeline') = Len(processedEventsTimeline) + 1
             /\ SubSeq(processedEventsTimeline', 1, Len(processedEventsTimeline))
                  = processedEventsTimeline]_vars

\* two identical notifications gave two records
C10_Witness ==
  /\ Len(processedEventsTimeline) = 2
  /\ processedEventsTimeline[1] = processedEventsTimeline[2]

(* -------------------------------- C11 ---------------------------------- *)

\* C11: the archived trace is a copy by value: a step that appends an event
\* to LiveTimeline, or clears it for a new submission, leaves every entry
\* of HistoricalTimelines as it was (page reloads apart, which drop both).
C11_ArchiveIsolatedFromLive ==
  [][(processedEventsTimeline' # processedEventsTimeline /\ ~PageReloads) =>
       \A id \in DOMAIN historicalActivities :
         /\ id \in DOMAIN historicalActivities'
         /\ historicalActivities'[id] = historicalActivities[id]]_vars

\* the first exchange's trace is archived, and the second exchange has
\* cleared LiveTimeline and appended different events to it
C11_Witness ==
  /\ exchange = 2
  /\ ReplyId(1) \in DOMAIN historicalActivities
  /\ historicalActivities[ReplyId(1)] # <<>>
  /\ processedEventsTimeline # <<>>
  /\ processedEventsTimeline # historicalActivities[ReplyId(1)]

(* ----------------------- vocabulary of C12 .. C16 ---------------------- *)

\* the recognized keys a notification carries, whatever their value
KeysCarried(ev) == {k \in PhaseKeys : ev[k] # Undefined}

DocumentedTitle(k) ==
  CASE k = "generate_query" -> "Generating Search Queries"
    [] k = "web_research" -> "Web Research"
    [] k = "reflection" -> "Reflection"
    [] k = "finalize_answer" -> "Finalizing Answer"

\* this step puts exactly one record after the existing ones
OneRecordAppended ==
  /\ Len(processedEventsTimeline') = Len(processedEventsTimeline) + 1
  /\ SubSeq(processedEventsTimeline', 1, Len(processedEventsTimeline))
       = processedEventsTimeline

NewRecord == processedEventsTimeline'[Len(processedEventsTimeline')]

\* the last record of LiveTimeline
LastRecord == processedEventsTimeline[Len(processedEventsTimeline)]

(* -------------------------------- C12 ---------------------------------- *)

\* C12: a notification carrying exactly one of the four recognized keys,
\* whatever the key's payload value, gives exactly one record with the
\* documented title; a notification with none of the four keys gives no
\* record and leaves LiveTimeline and the latch unchanged.
C12_OneRecordPerPhaseKey ==
  [][\A ev \in ClassifierEvents : OnUpdateEvent(ev) =>
       /\ \A k \in PhaseKeys : KeysCarried(ev) = {k} =>
            /\ OneRecordAppended
            /\ NewRecord.title = DocumentedTitle(k)
       /\ KeysCarried(ev) = {} =>
            /\ processedEventsTimeline' = processedEventsTimeline
            /\ hasFinalizeEventOccurredRef' = hasFinalizeEventOccurredRef]_vars

(* -------------------------------- C13 ---------------------------------- *)

\* C13: every notification that carries a finalize key gives the fixed-text
\* "Finalizing Answer" record and raises the latch, also when it carries
\* other recognized keys alongside.
C13_FinalizeKeyRaisesLatch ==
  [][\A ev \in ClassifierEvents :
       (OnUpdateEvent(ev) /\ "finalize_answer" \in KeysCarried(ev)) =>
         /\ OneRecordAppended
         /\ NewRecord = [title |-> "Finalizing Answer",
                         data |-> "Composing and presenting the final answer."]
         /\ hasFinalizeEventOccurredRef']_vars

(* -------------------------------- C14 ---------------------------------- *)

HasLabel(S, i, l) == "label" \in DOMAIN S[i] /\ S[i].label = l

\* the non-empty labels occurring in S
NonEmptyLabels(S) ==
  {l \in {LabelOf(S[i]) : i \in 1..Len(S)} : l # ""}

FirstOccurrence(S, l) ==
  CHOOSE i \in 1..Len(S) :
    HasLabel(S, i, l) /\ \A j \in 1..(i - 1) : ~HasLabel(S, j, l)

\* the k-th distinct non-empty label of S in first-occurrence order
KthLabel(S, k) ==
  CHOOSE l \in NonEmptyLabels(S) :
    Cardinality({m \in NonEmptyLabels(S) :
                   FirstOccurrence(S, m) < FirstOccurrence(S, l)}) = k - 1

ExpectedLabelText(S) ==
  LET n == Cardinality(NonEmptyLabels(S))
  IN  IF n = 0 THEN "N/A"
      ELSE IF n = 1 THEN KthLabel(S, 1)
      ELSE IF n = 2 THEN KthLabel(S, 1) \o ", " \o KthLabel(S, 2)
      ELSE KthLabel(S, 1) \o ", " \o KthLabel(S, 2) \o ", " \o KthLabel(S, 3)

\* sources labelled A, A, B, C, D
FiveSources ==
  <<[label |-> "A"], [label |-> "A"], [label |-> "B"], [label |-> "C"],
    [label |-> "D"]>>

\* C14: for a web-research notification with source list S the record
\* counts Len(S) sources (sources without a label included) and names the
\* first three distinct non-empty labels of S in first-occurrence order,
\* joined by ", ", or "N/A" when S has no non-empty label; labels
\* A, A, B, C, D give "A, B, C" with count 5.
C14_ResearchRecord ==
  [][/\ \A S \in SourceLists : OnUpdateEvent(WithSources(JsArray(S))) =>
          /\ OneRecordAppended
          /\ NewRecord =
               [title |-> "Web Research",
                data |-> "Gathered " \o ToString(Len(S))
                           \o " sources. Related to: "
                           \o ExpectedLabelText(S) \o "."]
     /\ OnUpdateEvent(WithSources(JsArray(FiveSources))) =>
          NewRecord.data = "Gathered 5 sources. Related to: A, B, C."]_vars

\* the record of the five sources A, A, B, C, D is on LiveTimeline
C14_Witness ==
  /\ notification = WithSources(JsArray(FiveSources))
  /\ processedEventsTimeline # <<>>
  /\ LastRecord.data = "Gathered 5 sources. Related to: A, B, C."

(* -------------------------------- C15 ---------------------------------- *)

\* the strings of xs in their order, ", " between neighbours
RECURSIVE CommaSeparated(_)
CommaSeparated(xs) ==
  IF Len(xs) = 0 THEN ""
  ELSE IF Len(xs) = 1 THEN xs[1]
  ELSE CommaSeparated(SubSeq(xs, 1, Len(xs) - 1)) \o ", " \o xs[Len(xs)]

ExpectedQueryText(sq) ==
  IF sq.kind = "array" THEN CommaSeparated(sq.items) ELSE ""

\* C15: for a query-generation notification the record's data is the
\* generated query strings joined by ", " in their given order, and the
\* empty string when the query list is absent or empty.
C15_QueryRecord ==
  [][/\ \A sq \in QueryLists : OnUpdateEvent(WithQuery(sq)) =>
          /\ OneRecordAppended
          /\ NewRecord = [title |-> "Generating Search Queries",
                          data |-> ExpectedQueryText(sq)]
     /\ OnUpdateEvent(WithQuery(JsArray(<<"q2", "q1">>))) =>
          NewRecord.data = "q2, q1"
     /\ \A sq \in {JsArray(<<>>), Undefined, JsNull} :
          OnUpdateEvent(WithQuery(sq)) => NewRecord.data = ""]_vars

\* a two-query record is followed by the record of an absent query list
C15_Witness ==
  /\ Len(processedEventsTimeline) >= 2
  /\ processedEventsTimeline[1].data = "q2, q1"
  /\ notification = WithQuery(Undefined)
  /\ LastRecord = [title |-> "Generating Search Queries", data |-> ""]

(* -------------------------------- C16 ---------------------------------- *)

\* the record of a phase whose payload carries nothing
EmptyValueRecord(k) ==
  IF k = "generate_query"
  THEN [title |-> "Generating Search Queries", data |-> ""]
  ELSE [title |-> "Web Research",
        data |-> "Gathered 0 sources. Related to: N/A."]

\* C16: the classifier never fails on a malformed payload: when the payload
\* fields of a recognized key are missing or of an unexpected shape, no
\* exception escapes, LiveTimeline gets the record of that phase (with the
\* empty/zero values when the fields are missing) and no error state is set.
C16_MalformedDegrades ==
  [][\A ev \in MissingFieldEvents \cup WrongShapeEvents :
       OnUpdateEvent(ev) =>
         \A k \in KeysCarried(ev) :
           /\ ~ClassifierThrows(ev)
           /\ OneRecordAppended
           /\ NewRecord.title = DocumentedTitle(k)
           /\ ev \in MissingFieldEvents => NewRecord = EmptyValueRecord(k)
           /\ error' = error]_vars

(* ----------------------- vocabulary of C17 .. C19 ---------------------- *)

\* the human message a submission adds to the payload
NewHumanMessage == submitted'.messages[Len(submitted'.messages)]

\* handleSubmit(i, e, m) ran and went past the blank-input check
Submits(i, e, m) == HandleSubmit(i, e, m) /\ SubmissionStarts

(* -------------------------------- C17 ---------------------------------- *)

ExpectedPair(effort) ==
  IF effort = "low" THEN <<1, 1>>
  ELSE IF effort = "medium" THEN <<3, 3>>
  ELSE IF effort = "high" THEN <<5, 10>>
  ELSE <<0, 0>>

\* C17: the effort selector maps to the submitted pair
\* (initial_search_query_count, max_research_loops) as low -> (1,1),
\* medium -> (3,3), high -> (5,10) and every other string -> (0,0).
C17_EffortMapping ==
  [][\A i \in AllInputs, e \in AllEfforts, m \in AllModels :
       Submits(i, e, m) =>
         <<submitted'.initial_search_query_count,
           submitted'.max_research_loops>> = ExpectedPair(e)]_vars

\* a payload submitted with effort high is in flight
C17_Witness ==
  /\ submitted # JsNull
  /\ submitted.initial_search_query_count = 5
  /\ submitted.max_research_loops = 10

(* -------------------------------- C18 ---------------------------------- *)

\* a background context is present: neither null nor the empty string
ContextPresent == backgroundContext # JsNull /\ backgroundContext.value # ""

\* the documented text of the human message for typed input i
ComposedText(i) ==
  IF ContextPresent
  THEN "Background Context:\n" \o backgroundContext.value
         \o "\n\nUser Query:\n" \o Str(i)
  ELSE Str(i)

\* C18: the text of the submitted human message is
\* "Background Context:\n<context>\n\nUser Query:\n<input>" when a
\* background context is present, and the raw input verbatim (untrimmed,
\* unchanged) when there is none (null or empty string).
C18_ComposedText ==
  [][/\ \A i \in AllInputs, e \in AllEfforts, m \in AllModels :
          Submits(i, e, m) => NewHumanMessage.content = ComposedText(i)
     /\ \A e \in AllEfforts, m \in AllModels :
          Submits(<<" ", "Q", " ">>, e, m) =>
            NewHumanMessage.content =
              IF backgroundContext = JsString("C")
              THEN "Background Context:\nC\n\nUser Query:\n Q "
              ELSE " Q "]_vars

\* an untrimmed input was submitted verbatim under an empty-string context
C18_Witness ==
  /\ submitted # JsNull
  /\ backgroundContext = JsString("")
  /\ submitted.messages[Len(submitted.messages)].content = " Q "

(* -------------------------------- C19 ---------------------------------- *)

\* C19: each non-blank submission calls the stream's submit once, with a
\* payload whose messages are all prior thread messages, unchanged and in
\* order, followed by exactly one new human message carrying the composed
\* text, together with the two effort integers and reasoning_model equal
\* to the selected model string.
C19_SubmitPayload ==
  [][/\ \A i \in AllInputs, e \in AllEfforts, m \in AllModels :
          Submits(i, e, m) =>
            /\ submitted' # JsNull
            /\ Len(submitted'.messages) = Len(messages) + 1
            /\ SubSeq(submitted'.messages, 1, Len(messages)) = messages
            /\ NewHumanMessage.type = "human"
            /\ NewHumanMessage.content = ComposedText(i)
            /\ submitted'.initial_search_query_count = ExpectedPair(e)[1]
            /\ submitted'.max_research_loops = ExpectedPair(e)[2]
            /\ submitted'.reasoning_model = m
     /\ (submitted' # submitted /\ submitted' # JsNull) => SubmissionStarts]_vars

\* the payload of a second exchange carries the first exchange's human
\* message and reply before the new human message
C19_Witness ==
  /\ submitted # JsNull
  /\ Len(messages) = 2
  /\ messages[2].type = "ai"
  /\ Len(submitted.messages) = 3
  /\ submitted.reasoning_model = "gemini-2.5-pro-preview-05-06"

(* -------------------------------- C20 ---------------------------------- *)

\* `error ? <error view with Retry> : renderPageContent()`
ErrorViewShown == Truthy(error)

\* C20: a stream-level error sets a single error state that replaces the
\* main content area with the error view and its retry control; onError
\* triggers no submit; once set, the error state stays set through every
\* later operation until the page is reloaded.
C20_ErrorStateSticks ==
  [][/\ \A msg \in AllErrorMessages : OnError(msg) =>
          /\ ErrorViewShown'
          /\ submitted' = submitted
          /\ exchange' = exchange
     /\ (ErrorViewShown /\ ~PageReloads) => ErrorViewShown']_vars

(* -------------------------------- C21 ---------------------------------- *)

\* C21: the stop action terminates the subscription and reloads the page;
\* after it all in-memory state has its initial value: LiveTimeline empty,
\* HistoricalTimelines empty, latch false, background context absent, error
\* absent (and no stream is loading, no message is listed).
C21_StopReloads ==
  [][PageReloads =>
       /\ processedEventsTimeline' = <<>>
       /\ historicalActivities' = EmptyMap
       /\ hasFinalizeEventOccurredRef' = FALSE
       /\ backgroundContext' = JsNull
       /\ error' = JsNull
       /\ messages' = <<>>
       /\ isLoading' = FALSE
       /\ submitted' = JsNull]_vars

\* the stop control is available in a second exchange in which every part
\* of the state differs from its initial value
C21_Witness ==
  /\ isLoading
  /\ exchange = 2
  /\ processedEventsTimeline # <<>>
  /\ historicalActivities # EmptyMap
  /\ hasFinalizeEventOccurredRef
  /\ Truthy(backgroundContext)
  /\ Truthy(error)

(* -------------------------------- C22 ---------------------------------- *)

\* widget w's fetch ends in this step with an error
FetchFails(w) ==
  /\ widget[w].phase \in {"mounted", "fetching", "settled"}
  /\ widget'[w].phase = "settled"
  /\ widget'[w] # widget[w]
  /\ Truthy(widget'[w].error)

\* C22: a fetch failure in a widget changes only that widget's own state:
\* not the core's error state, LiveTimeline, HistoricalTimelines, latch or
\* background context, and not the other widget's state; a widget changes
\* the core only through onSendToCopilot setting the background context.
C22_WidgetFailureIsolated ==
  [][/\ \A w \in Widgets : FetchFails(w) =>
          /\ coreVars' = coreVars
          /\ currentPage' = currentPage
          /\ \A o \in Widgets \ {w} : widget'[o] = widget[o]
     /\ (widget' # widget \/ SendToCopilotStep) =>
          <<processedEventsTimeline, historicalActivities,
            hasFinalizeEventOccurredRef, error, messages, isLoading,
            submitted>>' =
          <<processedEventsTimeline, historicalActivities,
            hasFinalizeEventOccurredRef, error, messages, isLoading,
            submitted>>]_vars

\* the news widget has failed while the heatmap holds data that was sent
\* to the copilot
C22_Witness ==
  /\ Truthy(widget["news"].error)
  /\ widget["heatmap"].data # JsNull
  /\ widget["heatmap"].error = JsNull
  /\ Truthy(backgroundContext)
  /\ error = JsNull

(* -------------------------------- C30 ---------------------------------- *)

\* a fetch of widget w starts in this step and waits for its response
FetchStarts(w) ==
  widget[w].phase # "fetching" /\ widget'[w].phase = "fetching"

\* a fetch of widget w ends in this step
FetchEnds(w) ==
  /\ widget[w].phase \in {"mounted", "fetching", "settled"}
  /\ widget'[w].phase = "settled"
  /\ widget'[w] # widget[w]

SuccessOutcome(w) ==
  /\ widget'[w].data \in Payloads(w)
  /\ widget'[w].lastUpdated # JsNull
  /\ widget'[w].error = JsNull

FailureOutcome(w) ==
  /\ Truthy(widget'[w].error)
  /\ widget'[w].data = widget[w].data
  /\ widget'[w].lastUpdated = widget[w].lastUpdated

\* C30: every widget fetch (initial, refresh or retry) ends with loading
\* false and exactly one of two outcomes: success replaces the data, sets
\* lastUpdated and leaves error absent; any failure sets error to a message
\* ("Request timed out. Please try again." for the heatmap's abort) and
\* leaves the data held before unchanged. Starting a fetch clears the
\* previous error first.
C30_FetchOutcome ==
  [][\A w \in Widgets :
       /\ FetchEnds(w) =>
            /\ widget'[w].loading = FALSE
            /\ SuccessOutcome(w) # FailureOutcome(w)
       /\ \A payload \in Payloads(w), now \in Dates :
            FetchSucceed(w, payload, now) =>
              SuccessOutcome(w) /\ widget'[w].data = payload
       /\ \A cause \in FailureCauses(w) : FetchFail(w, cause) => FailureOutcome(w)
       /\ FetchFail("heatmap", "abort") =>
            widget'["heatmap"].error
              = JsString("Request timed out. Please try again.")
       /\ FetchStarts(w) =>
            widget'[w].error = JsNull /\ widget'[w].loading = TRUE]_vars

\* the heatmap holds data of an earlier fetch and its refresh timed out
C30_Witness ==
  /\ widget["heatmap"].phase = "settled"
  /\ widget["heatmap"].loading = FALSE
  /\ widget["heatmap"].data \in Payloads("heatmap")
  /\ widget["heatmap"].lastUpdated # JsNull
  /\ widget["heatmap"].error = JsString("Request timed out. Please try again.")

(* -------------------------------- C23 ---------------------------------- *)

\* the identities under which this step writes a trace
KeysWritten ==
  {id \in DOMAIN historicalActivities' :
     \/ id \notin DOMAIN historicalActivities
     \/ historicalActivities'[id] # historicalActivities[id]}

\* C23: an entry keyed by message identity m holds only records classified
\* during the exchange that produced m: a trace is never archived under the
\* identity of an assistant message of an earlier exchange, also when the
\* stream stops loading before the message list reflects the new exchange.
C23_TraceUnderOwnReply ==
  [][(SettleCheckRuns /\ ~PageReloads) =>
       \A id \in KeysWritten :
         /\ id = ReplyId(exchange)
         /\ historicalActivities'[id] = processedEventsTimeline]_vars

(* -------------------------------- C24 ---------------------------------- *)

FinalizeRecord ==
  [title |-> "Finalizing Answer",
   data |-> "Composing and presenting the final answer."]

EndsWithFinalize(trace) ==
  trace # <<>> /\ trace[Len(trace)] = FinalizeRecord

ContainsFinalize(trace) == \E i \in 1..Len(trace) : trace[i] = FinalizeRecord

C25_NoSubmitWhileLoading == [][SubmissionStarts => ~isLoading]_vars

(* -------------------------------- C26 ---------------------------------- *)

\* the order in which the chain tests the keys
KeyOrder == <<"generate_query", "web_research", "reflection", "finalize_answer">>

\* positions of the keys of ev that the chain recognizes (truthy payload)
RecognizedPositions(ev) == {i \in 1..Len(KeyOrder) : Truthy(ev[KeyOrder[i]])}

\* the first recognized key of ev in the order of the chain
FirstKey(ev) ==
  KeyOrder[CHOOSE i \in RecognizedPositions(ev) :
             \A j \in RecognizedPositions(ev) : i <= j]

LivePlaces ==
  (IF PlaceholderShown THEN {0} ELSE {})
    \cup {index \in AiBubbles : BubbleIsLive(index)}

\* the archived trace under the identity of the message at index, if any
OwnHistoricalRecords(index) ==
  IF messages[index].id \in DOMAIN historicalActivities
  THEN historicalActivities[messages[index].id]
  ELSE <<>>

\* C27: whatever the message list and isLoading, the live timeline is shown
\* in at most one place: the placeholder is shown exactly when isLoading and
\* the list is empty or ends with a human message; an assistant bubble shows
\* the live timeline exactly when it is the last message and isLoading; every
\* other assistant bubble shows only the archived trace under its own
\* identity, nothing without one; placeholder and live bubble never coexist.
C27_LiveTimelineInOnePlace ==
  /\ Cardinality(LivePlaces) <= 1
  /\ PlaceholderShown <=>
       (isLoading /\ (messages = <<>> \/ LastMessage.type = "human"))
  /\ \A index \in AiBubbles :
       /\ BubbleIsLive(index) <=> (index = Len(messages) /\ isLoading)
       /\ BubbleIsLive(index) =>
            BubbleRecords(index) = processedEventsTimeline
       /\ ~BubbleIsLive(index) =>
            BubbleRecords(index) = OwnHistoricalRecords(index)
  /\ ~(PlaceholderShown /\ \E index \in AiBubbles : BubbleIsLive(index))

\* the second exchange is loading, its reply is the last message and shows
\* the live records, while the first reply shows its archived trace
C27_Witness ==
  /\ isLoading
  /\ Len(messages) = 4
  /\ LastMessage.type = "ai"
  /\ processedEventsTimeline # <<>>
  /\ BubbleIsLive(4)
  /\ ~BubbleIsLive(2)
  /\ BubbleRecords(2) # <<>>
  /\ BubbleRecords(2) = historicalActivities[messages[2].id]

(* -------------------------------- C28 ---------------------------------- *)

\* a text is blank: empty, or white space only
IsBlank(text) == \A k \in 1..Len(text) : text[k] \in Whitespace

\* C28: a blank input is never submitted: on a blank text the form's submit
\* paths call nothing and keep the text, and handleSubmit called with a blank
\* text hands nothing to the stream and leaves LiveTimeline, the latch,
\* HistoricalTimelines and the background context unchanged.
C28_BlankNeverSubmitted ==
  [][/\ (IsBlank(inputForm.internalInputValue)
           /\ (HandleKeyDown \/ HandleInternalSubmit))
        => UNCHANGED vars
     /\ \A i \in AllInputs, e \in AllEfforts, m \in AllModels :
          (IsBlank(i) /\ HandleSubmit(i, e, m)) =>
            /\ ~SubmissionStarts
            /\ UNCHANGED <<submitted, isLoading, processedEventsTimeline,
                           hasFinalizeEventOccurredRef, historicalActivities,
                           backgroundContext>>
     /\ IsBlank(inputForm.internalInputValue) =>
          /\ ~SubmissionStarts
             \/ \E i \in AllInputs, e \in AllEfforts, m \in AllModels :
                  ~IsBlank(i) /\ Submits(i, e, m) /\ UNCHANGED inputForm
          /\ submitted' # submitted => SubmissionStarts \/ submitted' = JsNull
    ]_vars

\* a white-space text sits in the form of an idle session that has a record
\* on LiveTimeline: both submit paths of the form can be taken
C28_Witness ==
  /\ inputForm.internalInputValue = <<" ">>
  /\ ~isLoading
  /\ exchange = 1
  /\ processedEventsTimeline # <<>>
  /\ submitted = JsNull

(* -------------------------------- C29 ---------------------------------- *)

\* the preamble a present background context puts before the typed text
Preamble ==
  "Background Context:\n" \o backgroundContext.value \o "\n\nUser Query:\n"

\* C29: within a session the background context changes only through
\* onSendToCopilot, which replaces it with the text sent (the last sender
\* wins), and through the clear action, which makes it absent; a submission
\* leaves it as it is, so each submission made while it is present carries
\* its preamble.
C29_ContextOnlySetOrCleared ==
  [][~PageReloads =>
       /\ backgroundContext' # backgroundContext =>
            \/ \E c \in AllContexts :
                 SetBackgroundContext(c) /\ backgroundContext' = JsString(c)
            \/ ClearBackgroundContext /\ backgroundContext' = JsNull
       /\ SubmissionStarts =>
            /\ backgroundContext' = backgroundContext
            /\ ContextPresent =>
                 \E i \in AllInputs :
                   NewHumanMessage.content = Preamble \o Str(i)]_vars

\* the second submission of a session went out under the context that the
\* first one was made with
C29_Witness ==
  /\ exchange = 2
  /\ submitted # JsNull
  /\ backgroundContext = JsString("C")
  /\ Len(submitted.messages) >= 2
  /\ submitted.messages[Len(submitted.messages)].content
       = "Background Context:\nC\n\nUser Query:\nQ"

====
